---- MODULE Spec2Model ----
(***************************************************************************)
(* State-machine model of the probabilistic input core of uqtestfuns:      *)
(* the distribution utilities (core/prob_input/utils.py), the UnivDist     *)
(* dataclass (core/prob_input/univariate_distribution.py), the             *)
(* MultivariateInput that joins marginals, and the built-in test           *)
(* functions (test_functions) that own one.                                *)
(*                                                                         *)
(* Spec is the program that calls UnivDist, SpecCtor the construction of   *)
(* one UnivDist, SpecInput the program that calls a MultivariateInput and  *)
(* SpecFun the program that calls a built-in test function.                *)
(*                                                                         *)
(* Strings that the code transforms (the distribution name) are sequences  *)
(* of one-character strings, so that str.lower() is computed.  Exceptions  *)
(* are records naming the Python type and the function that raised.        *)
(***************************************************************************)
EXTENDS Integers, Sequences, FiniteSets, TLC

VARIABLES marginals, returned, last, prob_input, testfun

vars == <<marginals, returned, last, prob_input, testfun>>

----------------------------------------------------------------------------
(* Bounds of the model *)

\* parameter values are drawn from 0..MaxValue
MaxValue == 2
\* longest parameter vector handed to the constructor
MaxParamLen == 4
\* variates one instance may draw in total
MaxDraws == 2
\* largest sample_size of one get_sample call
MaxSampleSize == 2

Values == 0..MaxValue

RECURSIVE SeqsUpTo(_, _)
SeqsUpTo(S, n) ==
    IF n = 0 THEN {<<>>}
    ELSE LET shorter == SeqsUpTo(S, n - 1)
         IN shorter \cup {Append(s, v) : s \in {t \in shorter : Len(t) = n - 1}, v \in S}

None == "None"

\* the unit of the fixed-point numbers that stand for floats
Scale == 8

----------------------------------------------------------------------------
(* Strings and str.lower() *)

UpperCase == <<"A","B","C","D","E","F","G","H","I","J","K","L","M",
               "N","O","P","Q","R","S","T","U","V","W","X","Y","Z">>
LowerCase == <<"a","b","c","d","e","f","g","h","i","j","k","l","m",
               "n","o","p","q","r","s","t","u","v","w","x","y","z">>

char_lower(c) ==
    IF \E k \in 1..Len(UpperCase) : UpperCase[k] = c
    THEN LowerCase[CHOOSE k \in 1..Len(UpperCase) : UpperCase[k] = c]
    ELSE c

str_lower(s) == [k \in 1..Len(s) |-> char_lower(s[k])]

STR_uniform == <<"u","n","i","f","o","r","m">>
STR_truncnormal == <<"t","r","u","n","c","n","o","r","m","a","l">>
STR_normal == <<"n","o","r","m","a","l">>

\* the spellings handed to the constructor
DistributionInputs ==
    { STR_uniform,
      <<"U","n","i","f","o","r","m">>,
      <<"U","N","I","F","O","R","M">>,
      STR_truncnormal,
      <<"T","r","u","n","c","N","o","r","m","a","l">>,
      STR_normal }

ParameterInputs == SeqsUpTo(Values, MaxParamLen)
NameInputs == {None, "X1"}
DescriptionInputs == {None, "d1"}
\* Optional[int]: <<>> is None, <<s>> is the seed s
SeedInputs == {<<>>, <<0>>, <<1>>}
\* the seeds the system entropy may give
EntropySeeds == {0, 1}
\* the names the caller binds instances to
Refs == {"a", "b"}

----------------------------------------------------------------------------
(* Exceptions *)

NoError == [type |-> None, site |-> None]
Raise(type, site) == [type |-> type, site |-> site]

\* the spec's names for the two ValueErrors of construction
UnsupportedDistribution == Raise("ValueError", "verify_distribution")
InvalidParameters == Raise("ValueError", "uniform.verify_parameters")
UnboundLocal == Raise("UnboundLocalError", "get_distribution_module")
ArgumentCount(f) == Raise("TypeError", f)

----------------------------------------------------------------------------
(* core/prob_input/univariate_distributions/uniform.py *)

uniform_nparams == 2

uniform_verify_parameters(parameters) ==
    IF Len(parameters) # uniform_nparams THEN InvalidParameters
    ELSE IF parameters[1] >= parameters[2] THEN InvalidParameters
    ELSE NoError

\* parameters[0] and parameters[1]; an array too short for the index raises
IndexOutOfBounds == Raise("IndexError", "uniform.upper")

uniform_lower(parameters) == parameters[1]

uniform_upper(parameters) == parameters[2]

\* sample values, densities and probabilities are fixed-point numbers
\* counted in units of 1 / Scale; parameters are whole numbers
uniform_pdf(xx, parameters) ==
    [k \in 1..Len(xx) |->
        IF /\ xx[k] >= parameters[1] * Scale
           /\ xx[k] <= parameters[2] * Scale
        THEN Scale \div (parameters[2] - parameters[1])
        ELSE 0]

uniform_cdf(xx, parameters) ==
    [k \in 1..Len(xx) |->
        IF xx[k] <= parameters[1] * Scale THEN 0
        ELSE IF xx[k] >= parameters[2] * Scale THEN Scale
        ELSE (xx[k] - parameters[1] * Scale) \div (parameters[2] - parameters[1])]

uniform_icdf(xx, parameters) ==
    [k \in 1..Len(xx) |->
        parameters[1] * Scale + xx[k] * (parameters[2] - parameters[1])]

----------------------------------------------------------------------------
(* core/prob_input/utils.py *)

SUPPORTED_MARGINALS == {STR_uniform}

\* the module bound by the if, or UnboundLocalError at the return
get_distribution_module(distribution) ==
    IF distribution = STR_uniform
    THEN [raised |-> NoError, module |-> "uniform"]
    ELSE [raised |-> UnboundLocal, module |-> None]

\* faulty variant: every name is accepted
verify_distribution_skipped(distribution) == NoError

verify_distribution(distribution) ==
    IF distribution \notin SUPPORTED_MARGINALS
    THEN UnsupportedDistribution
    ELSE NoError

\* faulty variant: the two bounds are taken the wrong way round
get_distribution_bounds_swapped(distribution, parameters) ==
    LET m == get_distribution_module(distribution)
    IN IF m.raised # NoError
       THEN [raised |-> m.raised, lower |-> None, upper |-> None]
       ELSE IF Len(parameters) < uniform_nparams
       THEN [raised |-> IndexOutOfBounds, lower |-> None, upper |-> None]
       ELSE [raised |-> NoError,
             lower |-> uniform_upper(parameters),
             upper |-> uniform_lower(parameters)]

get_distribution_bounds(distribution, parameters) ==
    LET m == get_distribution_module(distribution)
    IN IF m.raised # NoError
       THEN [raised |-> m.raised, lower |-> None, upper |-> None]
       ELSE IF Len(parameters) < uniform_nparams
       THEN [raised |-> IndexOutOfBounds, lower |-> None, upper |-> None]
       ELSE [raised |-> NoError,
             lower |-> uniform_lower(parameters),
             upper |-> uniform_upper(parameters)]

verify_parameters(distribution, parameters) ==
    LET m == get_distribution_module(distribution)
    IN IF m.raised # NoError THEN m.raised
       ELSE uniform_verify_parameters(parameters)


\* def get_pdf_values(xx, distribution, parameters)
get_values_nparams == 3

\* a call of one of get_pdf_values / get_cdf_values / get_icdf_values with the
\* positional arguments args: Python binds them to the three parameters or
\* raises TypeError; body is the value the function returns once bound
call_get_values(f, args, body) ==
    IF Len(args) # get_values_nparams
    THEN [raised |-> ArgumentCount(f), ret |-> <<>>]
    ELSE LET m == get_distribution_module(args[2])
         IN IF m.raised # NoError
            THEN [raised |-> m.raised, ret |-> <<>>]
            ELSE [raised |-> NoError, ret |-> body]

get_pdf_values(args) ==
    call_get_values("get_pdf_values", args, uniform_pdf(args[1], args[3]))

get_cdf_values(args) ==
    call_get_values("get_cdf_values", args, uniform_cdf(args[1], args[3]))

get_icdf_values(args) ==
    call_get_values("get_icdf_values", args, uniform_icdf(args[1], args[3]))

----------------------------------------------------------------------------
(* numpy.random.default_rng / Generator.random: a small congruential       *)
(* generator stands for PCG64.  A variate k stands for k / Scale in [0,1)   *)

RngMod == Scale
RngMul == 5
RngInc == 3

rng_next(state) == (RngMul * state + RngInc) % RngMod

\* default_rng(seed): None draws the seed from the system entropy
default_rng(seed, entropy) ==
    [state |-> (IF seed = <<>> THEN entropy ELSE seed[1]) % RngMod, pos |-> 0]

RECURSIVE rng_random(_, _)
\* Generator.random(n): the n variates drawn and the generator after them
rng_random(rng, n) ==
    IF n = 0 THEN [xx |-> <<>>, rng |-> rng]
    ELSE LET s == rng_next(rng.state)
             rest == rng_random([state |-> s, pos |-> rng.pos + 1], n - 1)
         IN [xx |-> <<s>> \o rest.xx, rng |-> rest.rng]

----------------------------------------------------------------------------
(* core/prob_input/univariate_distribution.py: class UnivDist *)

\* what a name of the caller holds before an instance is bound to it
Unbound == [class |-> "Unbound"]
\* an argument that is no UnivDist
NotUnivDist == [class |-> "list"]

isinstance(obj, cls) == obj.class = cls

\* faulty variant: verify_parameters is not called
post_init_unverified(distribution, parameters, name, description, rng_seed) ==
    LET d == str_lower(distribution)
        b == get_distribution_bounds(d, parameters)
    IN IF verify_distribution(d) # NoError
       THEN [raised |-> verify_distribution(d), obj |-> Unbound]
       ELSE IF b.raised # NoError
       THEN [raised |-> b.raised, obj |-> Unbound]
       ELSE [raised |-> NoError,
             obj |-> [class |-> "UnivDist",
                      distribution |-> d,
                      parameters |-> parameters,
                      name |-> name,
                      description |-> description,
                      lower |-> b.lower,
                      upper |-> b.upper,
                      rng_seed |-> rng_seed,
                      _rng |-> <<>>]]

\* faulty variant: the distribution is stored as it was given
post_init_as_given(distribution, parameters, name, description, rng_seed) ==
    LET d == str_lower(distribution)
        b == get_distribution_bounds(d, parameters)
    IN IF verify_distribution(d) # NoError
       THEN [raised |-> verify_distribution(d), obj |-> Unbound]
       ELSE IF verify_parameters(d, parameters) # NoError
       THEN [raised |-> verify_parameters(d, parameters), obj |-> Unbound]
       ELSE IF b.raised # NoError
       THEN [raised |-> b.raised, obj |-> Unbound]
       ELSE [raised |-> NoError,
             obj |-> [class |-> "UnivDist",
                      distribution |-> distribution,
                      parameters |-> parameters,
                      name |-> name,
                      description |-> description,
                      lower |-> b.lower,
                      upper |-> b.upper,
                      rng_seed |-> rng_seed,
                      _rng |-> <<>>]]

\* faulty variant: the bounds are computed before the parameters are verified
post_init_bounds_first(distribution, parameters, name, description, rng_seed) ==
    LET d == str_lower(distribution)
        b == get_distribution_bounds(d, parameters)
    IN IF verify_distribution(d) # NoError
       THEN [raised |-> verify_distribution(d), obj |-> Unbound]
       ELSE IF b.raised # NoError
       THEN [raised |-> b.raised, obj |-> Unbound]
       ELSE IF verify_parameters(d, parameters) # NoError
       THEN [raised |-> verify_parameters(d, parameters), obj |-> Unbound]
       ELSE [raised |-> NoError,
             obj |-> [class |-> "UnivDist",
                      distribution |-> d,
                      parameters |-> parameters,
                      name |-> name,
                      description |-> description,
                      lower |-> b.lower,
                      upper |-> b.upper,
                      rng_seed |-> rng_seed,
                      _rng |-> <<>>]]

\* UnivDist.__post_init__ on the fields the generated __init__ has set
post_init(distribution, parameters, name, description, rng_seed) ==
    LET d == str_lower(distribution)
        b == get_distribution_bounds(d, parameters)
    IN IF verify_distribution(d) # NoError
       THEN [raised |-> verify_distribution(d), obj |-> Unbound]
       ELSE IF verify_parameters(d, parameters) # NoError
       THEN [raised |-> verify_parameters(d, parameters), obj |-> Unbound]
       ELSE IF b.raised # NoError
       THEN [raised |-> b.raised, obj |-> Unbound]
       ELSE [raised |-> NoError,
             obj |-> [class |-> "UnivDist",
                      distribution |-> d,
                      parameters |-> parameters,
                      name |-> name,
                      description |-> description,
                      lower |-> b.lower,
                      upper |-> b.upper,
                      rng_seed |-> rng_seed,
                      _rng |-> <<>>]]

\* faulty variant: the record is taken over as it is
from_spec_unverified(marginal_spec, rng_seed) ==
    post_init_unverified(marginal_spec.distribution, marginal_spec.parameters,
                         marginal_spec.name, marginal_spec.description, rng_seed)

\* UnivDist.from_spec(marginal_spec, rng_seed)
from_spec(marginal_spec, rng_seed) ==
    post_init(marginal_spec.distribution, marginal_spec.parameters,
              marginal_spec.name, marginal_spec.description, rng_seed)

\* the positional arguments every method hands to utils.get_*_values
values_args(self, xx) ==
    <<xx, self.distribution, self.parameters, self.lower, self.upper>>

\* np.asarray of an array is that array: no copy is made
np_asarray(xx) == xx

UnivDist_pdf(self, xx) == get_pdf_values(values_args(self, np_asarray(xx)))

UnivDist_cdf(self, xx) == get_cdf_values(values_args(self, np_asarray(xx)))

UnivDist_icdf(self, xx) == get_icdf_values(values_args(self, np_asarray(xx)))

\* faulty variant: self.cdf is evaluated before other is looked at
UnivDist_transform_sample_checking_late(self, xx, other) ==
    LET xx_trans == UnivDist_cdf(self, xx)
    IN IF xx_trans.raised # NoError THEN xx_trans
       ELSE IF ~isinstance(other, "UnivDist")
       THEN [raised |-> Raise("TypeError", "transform_sample"), ret |-> <<>>]
       ELSE get_icdf_values(values_args(other, xx_trans.ret))

\* isinstance(other, UnivDist), then self.cdf and get_icdf_values on other
UnivDist_transform_sample(self, xx, other) ==
    IF ~isinstance(other, "UnivDist")
    THEN [raised |-> Raise("TypeError", "transform_sample"), ret |-> <<>>]
    ELSE LET xx_trans == UnivDist_cdf(self, xx)
         IN IF xx_trans.raised # NoError THEN xx_trans
            ELSE get_icdf_values(values_args(other, xx_trans.ret))

\* bool(a == b) of two arrays that are not the same object: the truth value
\* of an array with more than one element is ambiguous
ndarray_eq(a, b) ==
    IF Len(a) = Len(b) /\ Len(a) > 1
    THEN [raised |-> Raise("ValueError", "ndarray.__bool__"), ret |-> <<>>]
    ELSE [raised |-> NoError, ret |-> <<a = b>>]

\* the __eq__ that dataclass generates: the tuples of the fields are compared
\* item by item (an item that is the same object is equal), up to the first
\* that differs; same says that self and other are the same object
UnivDist_eq(self, other, same) ==
    IF same THEN [raised |-> NoError, ret |-> <<TRUE>>]
    ELSE IF self.distribution # other.distribution
    THEN [raised |-> NoError, ret |-> <<FALSE>>]
    ELSE IF ndarray_eq(self.parameters, other.parameters) # [raised |-> NoError, ret |-> <<TRUE>>]
    THEN ndarray_eq(self.parameters, other.parameters)
    ELSE [raised |-> NoError,
          ret |-> << /\ self.name = other.name
                     /\ self.description = other.description
                     /\ self.lower = other.lower
                     /\ self.upper = other.upper
                     /\ self.rng_seed = other.rng_seed
                     /\ self._rng = <<>>
                     /\ other._rng = <<>> >>]

----------------------------------------------------------------------------
(* The callers: a program that binds instances to the names of Refs and    *)
(* calls their methods.  last is the call made last: its arguments, what   *)
(* it raised and what it returned; returned[r] is what each get_sample     *)
(* call on r has returned so far.                                          *)

\* what the callers of the state machine construct instances from
MachineDistributionInputs ==
    {STR_uniform, <<"U","n","i","f","o","r","m">>, STR_normal}
MachineParameterInputs == {<<0, 1>>, <<1, 0>>, <<1, 1>>, <<0>>, <<0, 1, 2>>}
\* the arrays handed to pdf, cdf, icdf and transform_sample
ArrayInputs == {<<0>>, <<Scale \div 2, Scale>>}

NoArgs ==
    [distribution |-> <<>>, parameters |-> <<>>, name |-> None,
     description |-> None, rng_seed |-> <<>>]

NoCall ==
    [op |-> None, self |-> None, other |-> None, args |-> NoArgs,
     sample_size |-> 0, xx |-> <<>>, xx_after |-> <<>>,
     domain |-> <<>>, seed |-> <<>>,
     raised |-> NoError, ret |-> <<>>]

Bound(r) == isinstance(marginals[r], "UnivDist")

Drawn(r) == IF marginals[r]._rng = <<>> THEN 0 ELSE marginals[r]._rng[1].pos

Init ==
    /\ marginals = [r \in Refs |-> Unbound]
    /\ returned = [r \in Refs |-> <<>>]
    /\ last = NoCall
    /\ prob_input = Unbound
    /\ testfun = Unbound

\* r = UnivDist(distribution, parameters, name, description, rng_seed)
Construct(r, distribution, parameters, name, description, rng_seed, args) ==
    /\ ~Bound(r)
    /\ LET res == post_init(distribution, parameters, name, description, rng_seed)
       IN /\ marginals' = IF res.raised = NoError
                          THEN [marginals EXCEPT ![r] = res.obj]
                          ELSE marginals
          /\ last' = [NoCall EXCEPT !.op = "__init__", !.self = r,
                                    !.args = args, !.raised = res.raised]
    /\ UNCHANGED <<returned, prob_input, testfun>>

New ==
    \E r \in Refs, distribution \in MachineDistributionInputs,
       parameters \in MachineParameterInputs, name \in NameInputs,
       rng_seed \in SeedInputs :
        Construct(r, distribution, parameters, name, None, rng_seed, NoArgs)

\* faulty variant: a generator is created on every call
get_sample_reseeding(self, sample_size, entropy) ==
    LET rng == default_rng(self.rng_seed, entropy)
        draw == rng_random(rng, sample_size)
        res == get_icdf_values(values_args(self, draw.xx))
    IN [self |-> [self EXCEPT !._rng = <<draw.rng>>],
        xx |-> draw.xx, raised |-> res.raised, ret |-> res.ret]

\* faulty variant: the seed that was used is written back to rng_seed
get_sample_storing_seed(self, sample_size, entropy) ==
    LET rng == IF self._rng = <<>>
               THEN default_rng(self.rng_seed, entropy)
               ELSE self._rng[1]
        draw == rng_random(rng, sample_size)
        res == get_icdf_values(values_args(self, draw.xx))
    IN [self |-> [self EXCEPT !._rng = <<draw.rng>>, !.rng_seed = <<entropy>>],
        xx |-> draw.xx, raised |-> res.raised, ret |-> res.ret]

\* UnivDist.get_sample: the generator is attached before the variates are
\* drawn, and both happen before get_icdf_values is called
get_sample(self, sample_size, entropy) ==
    LET rng == IF self._rng = <<>>
               THEN default_rng(self.rng_seed, entropy)
               ELSE self._rng[1]
        draw == rng_random(rng, sample_size)
        res == get_icdf_values(values_args(self, draw.xx))
    IN [self |-> [self EXCEPT !._rng = <<draw.rng>>],
        xx |-> draw.xx, raised |-> res.raised, ret |-> res.ret]

GetSample ==
    \E r \in Refs, sample_size \in 1..MaxSampleSize, entropy \in EntropySeeds :
        /\ Bound(r)
        /\ Drawn(r) + sample_size <= MaxDraws
        /\ LET res == get_sample(marginals[r], sample_size, entropy)
           IN /\ marginals' = [marginals EXCEPT ![r] = res.self]
              /\ returned' = [returned EXCEPT ![r] =
                    Append(@, [sample_size |-> sample_size,
                               raised |-> res.raised, ret |-> res.ret])]
              /\ last' = [NoCall EXCEPT !.op = "get_sample", !.self = r,
                                        !.sample_size = sample_size,
                                        !.xx = res.xx,
                                        !.raised = res.raised,
                                        !.ret = res.ret]
        /\ UNCHANGED <<prob_input, testfun>>

\* a method that takes an array and touches neither it nor the instance
ArrayCall(op, r, o, xx, res) ==
    /\ last' = [NoCall EXCEPT !.op = op, !.self = r, !.other = o,
                              !.xx = xx, !.xx_after = xx,
                              !.raised = res.raised, !.ret = res.ret]
    /\ UNCHANGED <<marginals, returned, prob_input, testfun>>

Pdf ==
    \E r \in Refs, xx \in ArrayInputs :
        Bound(r) /\ ArrayCall("pdf", r, None, xx, UnivDist_pdf(marginals[r], xx))

Cdf ==
    \E r \in Refs, xx \in ArrayInputs :
        Bound(r) /\ ArrayCall("cdf", r, None, xx, UnivDist_cdf(marginals[r], xx))

Icdf ==
    \E r \in Refs, xx \in ArrayInputs :
        Bound(r) /\ ArrayCall("icdf", r, None, xx, UnivDist_icdf(marginals[r], xx))

\* other is an instance of the caller or an object that is no UnivDist
TransformSample ==
    \E r \in Refs, xx \in ArrayInputs, o \in Refs \cup {"list"} :
        /\ Bound(r)
        /\ o \in Refs => Bound(o)
        /\ LET other == IF o \in Refs THEN marginals[o] ELSE NotUnivDist
           IN ArrayCall("transform_sample", r, o, xx,
                        UnivDist_transform_sample(marginals[r], xx, other))

\* r == o
Eq ==
    \E r \in Refs, o \in Refs :
        /\ Bound(r) /\ Bound(o)
        /\ LET res == UnivDist_eq(marginals[r], marginals[o], r = o)
           IN last' = [NoCall EXCEPT !.op = "__eq__", !.self = r, !.other = o,
                                     !.raised = res.raised, !.ret = res.ret]
        /\ UNCHANGED <<marginals, returned, prob_input, testfun>>

Next == New \/ GetSample \/ Pdf \/ Cdf \/ Icdf \/ TransformSample \/ Eq

Spec == Init /\ [][Next]_vars

\* construction alone, on arguments drawn at the start
InitCtor ==
    /\ marginals = [r \in Refs |-> Unbound]
    /\ returned = [r \in Refs |-> <<>>]
    /\ prob_input = Unbound
    /\ testfun = Unbound
    /\ \E distribution \in DistributionInputs, parameters \in ParameterInputs,
          name \in NameInputs, description \in DescriptionInputs,
          rng_seed \in SeedInputs :
           last = [NoCall EXCEPT !.op = "pending",
                                 !.args = [distribution |-> distribution,
                                           parameters |-> parameters,
                                           name |-> name,
                                           description |-> description,
                                           rng_seed |-> rng_seed]]

NewFromArgs ==
    /\ last.op = "pending"
    /\ Construct("a", last.args.distribution, last.args.parameters,
                 last.args.name, last.args.description, last.args.rng_seed,
                 last.args)

\* a = UnivDist.from_spec(marginal_spec, rng_seed), the record marginal_spec
\* holding the four fields of the pending arguments
NewFromSpec ==
    /\ last.op = "pending"
    /\ LET marginal_spec == [distribution |-> last.args.distribution,
                             parameters |-> last.args.parameters,
                             name |-> last.args.name,
                             description |-> last.args.description]
           res == from_spec(marginal_spec, last.args.rng_seed)
       IN /\ marginals' = IF res.raised = NoError
                          THEN [marginals EXCEPT !["a"] = res.obj]
                          ELSE marginals
          /\ last' = [NoCall EXCEPT !.op = "from_spec", !.self = "a",
                                    !.args = last.args, !.raised = res.raised]
    /\ UNCHANGED <<returned, prob_input, testfun>>

NextCtor == NewFromArgs \/ NewFromSpec

SpecCtor == InitCtor /\ [][NextCtor]_vars

----------------------------------------------------------------------------
(* core: class MultivariateInput, an ordered sequence of marginals with    *)
(* no dependence between them (copulas is None).  An N-by-M array is the   *)
(* sequence of its N rows; a vector is a sequence of numbers.              *)

\* most marginals of an input that the callers construct
MaxDimension == 2

\* the number of columns of an array with at least one row
ncols(xx) == Len(xx[1])

\* xx[:, j]
column(xx, j) == [i \in 1..Len(xx) |-> xx[i][j]]

\* the n-by-M array whose columns are the M vectors of cols
column_stack(cols, n) ==
    [i \in 1..n |-> [j \in 1..Len(cols) |-> cols[j][i]]]

\* the spec's names for the two ValueErrors of the joint transform
DimensionMismatch == Raise("ValueError", "DimensionMismatch")
DomainError == Raise("ValueError", "DomainError")

\* UnivDist(**spec) for each specification record, in order, up to the
\* first construction that raises
RECURSIVE create_marginals(_)
create_marginals(specs) ==
    IF specs = <<>> THEN [raised |-> NoError, marginals |-> <<>>]
    ELSE LET first == post_init(specs[1].distribution, specs[1].parameters,
                                specs[1].name, specs[1].description, <<>>)
             rest == create_marginals(Tail(specs))
         IN IF first.raised # NoError
            THEN [raised |-> first.raised, marginals |-> <<>>]
            ELSE IF rest.raised # NoError THEN rest
            ELSE [raised |-> NoError,
                  marginals |-> <<first.obj>> \o rest.marginals]

\* MultivariateInput(marginals, name, description, copulas) on marginals
\* that were constructed: create is what their construction gave
MultivariateInput_init(create, name, description, copulas) ==
    IF create.raised # NoError
    THEN [raised |-> create.raised, obj |-> Unbound]
    ELSE [raised |-> NoError,
          obj |-> [class |-> "MultivariateInput",
                   marginals |-> create.marginals,
                   copulas |-> copulas,
                   name |-> name,
                   description |-> description]]

spatial_dimension(self) == Len(self.marginals)

\* marginal.get_sample(n) for each marginal in order, up to the first call
\* that raises; entropies[j] is what the system entropy gives marginal j
RECURSIVE sample_marginals(_, _, _)
sample_marginals(ms, n, entropies) ==
    IF ms = <<>>
    THEN [marginals |-> <<>>, raised |-> NoError, cols |-> <<>>, xx |-> <<>>]
    ELSE LET first == get_sample(ms[1], n, entropies[1])
             rest == sample_marginals(Tail(ms), n, Tail(entropies))
         IN IF first.raised # NoError
            THEN [marginals |-> <<first.self>> \o Tail(ms),
                  raised |-> first.raised,
                  cols |-> <<>>,
                  xx |-> <<first.xx>>]
            ELSE [marginals |-> <<first.self>> \o rest.marginals,
                  raised |-> rest.raised,
                  cols |-> IF rest.raised = NoError
                           THEN <<first.ret>> \o rest.cols ELSE <<>>,
                  xx |-> <<first.xx>> \o rest.xx]

\* MultivariateInput.get_sample(n): the columns are drawn marginal by
\* marginal; xx holds the variates that each marginal drew
MultivariateInput_get_sample(self, n, entropies) ==
    LET s == sample_marginals(self.marginals, n, entropies)
    IN [self |-> [self EXCEPT !.marginals = s.marginals],
        xx |-> s.xx,
        raised |-> s.raised,
        ret |-> IF s.raised = NoError THEN column_stack(s.cols, n) ELSE <<>>]

\* uniform.transform_sample(xx[:, j], marginals[j]) for j, j + 1, ... up to
\* the first call that raises
RECURSIVE transform_columns(_, _, _, _)
transform_columns(uniform, xx, ms, j) ==
    IF j > Len(ms) THEN [raised |-> NoError, cols |-> <<>>]
    ELSE LET first == UnivDist_transform_sample(uniform, column(xx, j), ms[j])
             rest == transform_columns(uniform, xx, ms, j + 1)
         IN IF first.raised # NoError
            THEN [raised |-> first.raised, cols |-> <<>>]
            ELSE IF rest.raised # NoError THEN rest
            ELSE [raised |-> NoError, cols |-> <<first.ret>> \o rest.cols]

\* some value of xx lies outside [domain[1], domain[2]]
outside_domain(xx, domain) ==
    \E i \in 1..Len(xx) : \E j \in 1..Len(xx[i]) :
        xx[i][j] < domain[1] * Scale \/ xx[i][j] > domain[2] * Scale

\* the columns of xx taken from the uniform on the canonical domain to the
\* marginals, once the width and the values of xx have been verified
transform_verified(self, xx, domain) ==
    LET uniform == post_init(STR_uniform, domain, None, None, <<>>)
        t == transform_columns(uniform.obj, xx, self.marginals, 1)
    IN IF uniform.raised # NoError
       THEN [raised |-> uniform.raised, ret |-> <<>>]
       ELSE IF t.raised # NoError
       THEN [raised |-> t.raised, ret |-> <<>>]
       ELSE [raised |-> NoError, ret |-> column_stack(t.cols, Len(xx))]

\* faulty variant: the width of xx is not verified
transform_sample_any_width(self, xx, domain) ==
    IF outside_domain(xx, domain)
    THEN [raised |-> DomainError, ret |-> <<>>]
    ELSE transform_verified(self, xx, domain)

\* faulty variant: the values of xx are not verified
transform_sample_any_value(self, xx, domain) ==
    IF ncols(xx) # spatial_dimension(self)
    THEN [raised |-> DimensionMismatch, ret |-> <<>>]
    ELSE transform_verified(self, xx, domain)

\* MultivariateInput.transform_sample(xx, min_value, max_value), domain
\* being <<min_value, max_value>>
MultivariateInput_transform_sample(self, xx, domain) ==
    IF ncols(xx) # spatial_dimension(self)
    THEN [raised |-> DimensionMismatch, ret |-> <<>>]
    ELSE IF outside_domain(xx, domain)
    THEN [raised |-> DomainError, ret |-> <<>>]
    ELSE transform_verified(self, xx, domain)

----------------------------------------------------------------------------
(* The callers of a MultivariateInput: a program that constructs an input  *)
(* from specification records, samples from it and transforms arrays.      *)

\* the specification records that the callers construct inputs from
MarginalSpecInputs ==
    { [name |-> "X1", distribution |-> STR_uniform,
       parameters |-> <<0, 1>>, description |-> None],
      [name |-> "X2", distribution |-> STR_uniform,
       parameters |-> <<1, 2>>, description |-> None],
      [name |-> "X3", distribution |-> STR_normal,
       parameters |-> <<0, 1>>, description |-> None],
      [name |-> "X4", distribution |-> STR_uniform,
       parameters |-> <<1, 0>>, description |-> None] }

\* the canonical domain when min_value and max_value are not given
DefaultDomain == <<-1, 1>>

\* the n-by-m array of zeros whose last entry is v
np_zeros_but_last(n, m, v) ==
    [i \in 1..n |-> [j \in 1..m |-> IF i = n /\ j = m THEN v ELSE 0]]

\* the arrays handed to transform_sample: v is -1, 0, 0.5 or 2
InputArrays ==
    { np_zeros_but_last(n, m, v) :
        n \in 1..MaxSampleSize, m \in 1..(MaxDimension + 1),
        v \in {-Scale, 0, Scale \div 2, 2 * Scale} }

\* the seeds that np.random.seed has given the global generator
GlobalSeeds == {0, 1}

DrawnBy(obj) == IF obj._rng = <<>> THEN 0 ELSE obj._rng[1].pos

\* prob_input = MultivariateInput(specs)
NewInput ==
    \E specs \in SeqsUpTo(MarginalSpecInputs, MaxDimension) \ {<<>>} :
        /\ ~isinstance(prob_input, "MultivariateInput")
        /\ LET res == MultivariateInput_init(create_marginals(specs),
                                             None, None, None)
           IN /\ prob_input' = res.obj
              /\ last' = [NoCall EXCEPT !.op = "MultivariateInput",
                                        !.self = "prob_input",
                                        !.raised = res.raised]
        /\ UNCHANGED <<marginals, returned, testfun>>

\* np.random.seed(seed); prob_input.get_sample(n)
InputGetSample ==
    \E n \in 1..MaxSampleSize, seed \in GlobalSeeds,
       entropies \in [1..MaxDimension -> EntropySeeds] :
        /\ isinstance(prob_input, "MultivariateInput")
        /\ \A j \in 1..spatial_dimension(prob_input) :
              DrawnBy(prob_input.marginals[j]) + n <= MaxDraws
        /\ LET res == MultivariateInput_get_sample(prob_input, n, entropies)
           IN /\ prob_input' = res.self
              /\ last' = [NoCall EXCEPT !.op = "MultivariateInput.get_sample",
                                        !.self = "prob_input",
                                        !.sample_size = n,
                                        !.seed = <<seed>>,
                                        !.xx = res.xx,
                                        !.raised = res.raised,
                                        !.ret = res.ret]
        /\ UNCHANGED <<marginals, returned, testfun>>

\* prob_input.transform_sample(xx, min_value, max_value)
InputTransformSample ==
    \E xx \in InputArrays, domain \in {DefaultDomain, <<0, 1>>} :
        /\ isinstance(prob_input, "MultivariateInput")
        /\ LET res == MultivariateInput_transform_sample(prob_input, xx, domain)
           IN last' = [NoCall EXCEPT
                          !.op = "MultivariateInput.transform_sample",
                          !.self = "prob_input",
                          !.xx = xx, !.xx_after = xx,
                          !.domain = domain,
                          !.raised = res.raised,
                          !.ret = res.ret]
        /\ UNCHANGED <<marginals, returned, prob_input, testfun>>

NextInput == NewInput \/ InputGetSample \/ InputTransformSample

SpecInput == Init /\ [][NextInput]_vars

----------------------------------------------------------------------------
(* test_functions: the built-in test functions.  The numbers of the        *)
(* built-in inputs count thousandths (0.08 is 80, rounded where the source *)
(* has more digits); the values of the arrays handed to a test function    *)
(* count them in units of 1 / Scale, as everywhere.                        *)

STR_lognormal == <<"l","o","g","n","o","r","m","a","l">>
STR_trunc_gumbel == <<"t","r","u","n","c","-","g","u","m","b","e","l">>
STR_trunc_normal == <<"t","r","u","n","c","-","n","o","r","m","a","l">>
STR_triangular == <<"t","r","i","a","n","g","u","l","a","r">>

\* np.inf: a number beyond every other one of the built-in inputs
np_inf == 100000000

\* what a name holds that holds None
NoneObject == [class |-> "NoneType"]

\* the floats that an evaluation returns, one for each row of xx: the
\* closed forms of the test functions are not computed
yy_of(xx) == [i \in 1..Len(xx) |-> "float"]

\* a + b of an array a of m columns and a vector b of length len
np_broadcast(m, len) ==
    IF m = len \/ m = 1 \/ len = 1 THEN NoError
    ELSE Raise("ValueError", "numpy.broadcast")

\* UQTestFun.__init__ / UQTestFunABC.__init__ / UQTestFunFixDimABC.__init__:
\* prob_input_ is a MultivariateInput or None, parameters is <<>> (None) or
\* holds the parameters; the dimension is that of the input when there is one
UQTestFun_init(class, prob_input_, parameters, name) ==
    [class |-> class,
     spatial_dimension |-> IF isinstance(prob_input_, "MultivariateInput")
                           THEN spatial_dimension(prob_input_) ELSE 0,
     prob_input |-> prob_input_,
     parameters |-> parameters,
     name |-> name]

(* test_functions/wing_weight.py *)

WingWeight_DEFAULT_INPUT_DICTS ==
    <<  [name |-> "Sw", distribution |-> STR_uniform,
         parameters |-> <<150000, 200000>>,
         description |-> "wing area [ft^2]"],
        [name |-> "Wfw", distribution |-> STR_uniform,
         parameters |-> <<220000, 300000>>,
         description |-> "weight of fuel in the wing [lb]"],
        [name |-> "A", distribution |-> STR_uniform,
         parameters |-> <<6000, 10000>>,
         description |-> "aspect ratio [-]"],
        [name |-> "Lambda", distribution |-> STR_uniform,
         parameters |-> <<-10000, 10000>>,
         description |-> "quarter-chord sweep [degrees]"],
        [name |-> "q", distribution |-> STR_uniform,
         parameters |-> <<16000, 45000>>,
         description |-> "dynamic pressure at cruise [lb/ft^2]"],
        [name |-> "lambda", distribution |-> STR_uniform,
         parameters |-> <<500, 1000>>,
         description |-> "taper ratio [-]"],
        [name |-> "tc", distribution |-> STR_uniform,
         parameters |-> <<80, 180>>,
         description |-> "aerofoil thickness to chord ratio [-]"],
        [name |-> "Nz", distribution |-> STR_uniform,
         parameters |-> <<2500, 6000>>,
         description |-> "ultimate load factor [-]"],
        [name |-> "Wdg", distribution |-> STR_uniform,
         parameters |-> <<1700000, 2500000>>,
         description |-> "flight design gross weight [lb]"],
        [name |-> "Wp", distribution |-> STR_uniform,
         parameters |-> <<25, 80>>,
         description |-> "paint weight [lb/ft^2]"] >>

WingWeight_DEFAULT_INPUT ==
    MultivariateInput_init(create_marginals(WingWeight_DEFAULT_INPUT_DICTS),
                           None, None, None)

\* WingWeight(input): the instance holds DEFAULT_INPUT whatever input is
WingWeight_init(input) ==
    IF WingWeight_DEFAULT_INPUT.raised # NoError
    THEN [raised |-> WingWeight_DEFAULT_INPUT.raised, obj |-> Unbound]
    ELSE IF ~isinstance(input, "MultivariateInput")
    THEN [raised |-> Raise("TypeError", "WingWeight.__init__"), obj |-> Unbound]
    ELSE IF spatial_dimension(input)
               # spatial_dimension(WingWeight_DEFAULT_INPUT.obj)
    THEN [raised |-> Raise("ValueError", "WingWeight.__init__"), obj |-> Unbound]
    ELSE [raised |-> NoError,
          obj |-> UQTestFun_init("WingWeight", WingWeight_DEFAULT_INPUT.obj,
                                 <<>>, None)]

WingWeight_evaluate(self, xx) ==
    IF ncols(xx) # self.spatial_dimension
    THEN [raised |-> Raise("ValueError", "WingWeight.evaluate"), ret |-> <<>>]
    ELSE [raised |-> NoError, ret |-> yy_of(xx)]

(* test_functions/borehole.py *)

borehole_DEFAULT_INPUT_DICTS ==
    <<  [name |-> "rw", distribution |-> STR_normal,
         parameters |-> <<100, 16>>,
         description |-> "radius of the borehole [m]"],
        [name |-> "r", distribution |-> STR_lognormal,
         parameters |-> <<7710, 1006>>,
         description |-> "radius of influence [m]"],
        [name |-> "Tu", distribution |-> STR_uniform,
         parameters |-> <<63070000, 115600000>>,
         description |-> "transmissivity of upper aquifer [m^2/year]"],
        [name |-> "Hu", distribution |-> STR_uniform,
         parameters |-> <<990000, 1100000>>,
         description |-> "potentiometric head of upper aquifer [m]"],
        [name |-> "Tl", distribution |-> STR_uniform,
         parameters |-> <<63100, 116000>>,
         description |-> "transmissivity of lower aquifer [m^2/year]"],
        [name |-> "Hl", distribution |-> STR_uniform,
         parameters |-> <<700000, 820000>>,
         description |-> "potentiometric head of lower aquifer [m]"],
        [name |-> "L", distribution |-> STR_uniform,
         parameters |-> <<1120000, 1680000>>,
         description |-> "length of the borehole [m]"],
        [name |-> "Kw", distribution |-> STR_uniform,
         parameters |-> <<9985000, 12045000>>,
         description |-> "hydraulic conductivity of the borehole [m/year]"] >>

borehole_DEFAULT_INPUT ==
    MultivariateInput_init(create_marginals(borehole_DEFAULT_INPUT_DICTS),
                           None, None, None)

\* the module is imported (DEFAULT_INPUT is constructed) and the default
\* test function is made of its DEFAULT_NAME, evaluate and DEFAULT_INPUT
borehole_create ==
    IF borehole_DEFAULT_INPUT.raised # NoError
    THEN [raised |-> borehole_DEFAULT_INPUT.raised, obj |-> Unbound]
    ELSE [raised |-> NoError,
          obj |-> UQTestFun_init("Borehole", borehole_DEFAULT_INPUT.obj,
                                 <<>>, "Borehole")]

\* test_functions/utils.py: verify_input(xx, spatial_dimension)
verify_input(xx, dimension) ==
    IF ncols(xx) # dimension THEN Raise("ValueError", "verify_input")
    ELSE NoError

borehole_evaluate(xx) ==
    LET v == verify_input(xx, spatial_dimension(borehole_DEFAULT_INPUT.obj))
    IN IF v # NoError THEN [raised |-> v, ret |-> <<>>]
       ELSE [raised |-> NoError, ret |-> yy_of(xx)]

(* test_functions/available.py *)

\* faulty variant: a selection that is no key is taken as no selection
create_prob_input_from_available_lenient(input_selection, available_input_specs, dimension) ==
    IF input_selection \notin DOMAIN available_input_specs
    THEN [raised |-> NoError, obj |-> NoneObject]
    ELSE LET input_specs == available_input_specs[input_selection]
         IN MultivariateInput_init(
               IF input_specs.callable
               THEN input_specs.marginals[dimension]
               ELSE input_specs.marginals,
               input_specs.name, input_specs.description,
               input_specs.copulas)

\* input_specs.marginals is a list of marginals, or is callable and
\* gives the list for a spatial dimension
create_prob_input_from_available(input_selection, available_input_specs, dimension) ==
    IF input_selection = None THEN [raised |-> NoError, obj |-> NoneObject]
    ELSE IF input_selection \notin DOMAIN available_input_specs
    THEN [raised |-> Raise("ValueError", "create_prob_input_from_available"),
          obj |-> Unbound]
    ELSE LET input_specs == available_input_specs[input_selection]
         IN MultivariateInput_init(
               IF input_specs.callable
               THEN input_specs.marginals[dimension]
               ELSE input_specs.marginals,
               input_specs.name, input_specs.description,
               input_specs.copulas)

(* test_functions/flood.py *)

\* the arguments of the UnivariateInput calls of the list
INPUT_MARGINALS_IOOSS ==
    <<  [name |-> "Q", distribution |-> STR_trunc_gumbel,
         parameters |-> <<1013000, 558000, 500000, 3000000>>,
         description |-> "Maximum annual flow rate [m^3/s]"],
        [name |-> "Ks", distribution |-> STR_trunc_normal,
         parameters |-> <<30000, 8000, 15000, np_inf>>,
         description |-> "Strickler coefficient [m^(1/3)/s]"],
        [name |-> "Zv", distribution |-> STR_triangular,
         parameters |-> <<49000, 51000, 50000>>,
         description |-> "River downstream level [m]"],
        [name |-> "Zm", distribution |-> STR_triangular,
         parameters |-> <<54000, 56000, 55000>>,
         description |-> "River upstream level [m]"],
        [name |-> "Hd", distribution |-> STR_uniform,
         parameters |-> <<7000, 9000>>,
         description |-> "Dyke height [m]"],
        [name |-> "Cb", distribution |-> STR_triangular,
         parameters |-> <<55000, 56000, 55500>>,
         description |-> "Bank level [m]"],
        [name |-> "L", distribution |-> STR_triangular,
         parameters |-> <<4990000, 5010000, 5000000>>,
         description |-> "Length of the river stretch [m]"],
        [name |-> "B", distribution |-> STR_triangular,
         parameters |-> <<295000, 305000, 300000>>,
         description |-> "River width [m]"] >>

\* the list is built when the module is imported
Flood_AVAILABLE_INPUT_SPECS ==
    [iooss |-> [name |-> "Flood-Iooss",
                description |-> "Probabilistic input model for the Flood model",
                marginals |-> create_marginals(INPUT_MARGINALS_IOOSS),
                copulas |-> None,
                callable |-> FALSE]]

Flood_init(prob_input_selection) ==
    LET imported == Flood_AVAILABLE_INPUT_SPECS.iooss.marginals
        created == create_prob_input_from_available(
                      prob_input_selection, Flood_AVAILABLE_INPUT_SPECS, None)
    IN IF imported.raised # NoError
       THEN [raised |-> imported.raised, obj |-> Unbound]
       ELSE IF created.raised # NoError
       THEN [raised |-> created.raised, obj |-> Unbound]
       ELSE [raised |-> NoError,
             obj |-> UQTestFun_init("Flood", created.obj, <<>>, "Flood")]

\* the columns xx[:, 0] to xx[:, 7] are read
Flood_evaluate(self, xx) ==
    IF ncols(xx) < Len(INPUT_MARGINALS_IOOSS)
    THEN [raised |-> Raise("IndexError", "Flood.evaluate"), ret |-> <<>>]
    ELSE [raised |-> NoError, ret |-> yy_of(xx)]

(* test_functions/sobol_g.py *)

\* f"X{i + 1}"
XNames == <<"X1", "X2", "X3", "X4">>

\* faulty variant: the marginals of the default dimension, whatever is asked
create_sobol_input_of_default(dimension) ==
    create_marginals([i \in 1..2 |->
                         [name |-> XNames[i],
                          distribution |-> STR_uniform,
                          parameters |-> <<0, 1000>>,
                          description |-> "None"]])

create_sobol_input(dimension) ==
    create_marginals([i \in 1..dimension |->
                         [name |-> XNames[i],
                          distribution |-> STR_uniform,
                          parameters |-> <<0, 1000>>,
                          description |-> "None"]])

SobolG_AVAILABLE_INPUT_SPECS ==
    [sobol |-> [name |-> "Sobol-G",
                description |-> "Probabilistic input model for the Sobol'-G function",
                marginals |-> [d \in 1..Len(XNames) |-> create_sobol_input(d)],
                copulas |-> None,
                callable |-> TRUE]]

\* 0.01 * np.ones(spatial_dimension)
get_params_sobol_1(dimension) == [i \in 1..dimension |-> 10]

\* np.ones(spatial_dimension)
get_params_sobol_2(dimension) == [i \in 1..dimension |-> 1000]

\* np.arange(1, spatial_dimension + 1)
get_params_sobol_3(dimension) == [i \in 1..dimension |-> i * 1000]

\* np.arange(1, spatial_dimension + 1) ** 2
get_params_sobol_4(dimension) == [i \in 1..dimension |-> i * i * 1000]

\* yy = np.zeros(spatial_dimension); yy[2:] = 6.52
get_params_kucherenko_2a(dimension) ==
    [i \in 1..dimension |-> IF i > 2 THEN 6520 ELSE 0]

\* 6.52 * np.ones(spatial_dimension)
get_params_kucherenko_3b(dimension) == [i \in 1..dimension |-> 6520]

\* (np.arange(1, spatial_dimension + 1) - 1) / 2.0
get_params_crestaux_2007(dimension) ==
    [i \in 1..dimension |-> ((i - 1) * 1000) \div 2]

\* each entry is callable and gives the array for a spatial dimension
AVAILABLE_PARAMETERS ==
    [d \in 1..Len(XNames) |->
        ("sobol-1" :> get_params_sobol_1(d))
        @@ ("sobol-2" :> get_params_sobol_2(d))
        @@ ("sobol-3" :> get_params_sobol_3(d))
        @@ ("sobol-4" :> get_params_sobol_4(d))
        @@ ("kucherenko-2a" :> get_params_kucherenko_2a(d))
        @@ ("kucherenko-3b" :> get_params_kucherenko_3b(d))
        @@ ("crestaux-2007" :> get_params_crestaux_2007(d))]

\* test_functions/available.py; obj is <<>> (None) or holds the parameters
create_parameters_from_available(param_selection, available_parameters, dimension) ==
    IF param_selection = None THEN [raised |-> NoError, obj |-> <<>>]
    ELSE IF param_selection \notin DOMAIN available_parameters[dimension]
    THEN [raised |-> Raise("ValueError", "create_parameters_from_available"),
          obj |-> Unbound]
    ELSE [raised |-> NoError,
          obj |-> <<available_parameters[dimension][param_selection]>>]

DEFAULT_INPUT_SELECTION == "sobol"
DEFAULT_PARAMETERS_SELECTION == "crestaux-2007"
DEFAULT_DIMENSION_SELECTION == 2

\* a Python int
int(i) == [class |-> "int", value |-> i]

\* faulty variant: the selections are looked up before the type of the
\* spatial dimension is checked
SobolG_init_checking_late(dimension, prob_input_selection, parameters_selection) ==
    IF prob_input_selection \notin ({None} \cup DOMAIN SobolG_AVAILABLE_INPUT_SPECS)
    THEN [raised |-> Raise("ValueError", "create_prob_input_from_available"),
          obj |-> Unbound]
    ELSE IF parameters_selection \notin ({None} \cup DOMAIN AVAILABLE_PARAMETERS[1])
    THEN [raised |-> Raise("ValueError", "create_parameters_from_available"),
          obj |-> Unbound]
    ELSE IF ~isinstance(dimension, "int")
    THEN [raised |-> Raise("TypeError", "SobolG.__init__"), obj |-> Unbound]
    ELSE [raised |-> NoError,
          obj |-> UQTestFun_init(
                     "SobolG",
                     create_prob_input_from_available(
                        prob_input_selection, SobolG_AVAILABLE_INPUT_SPECS,
                        dimension.value).obj,
                     create_parameters_from_available(
                        parameters_selection, AVAILABLE_PARAMETERS,
                        dimension.value).obj,
                     "SobolG")]

\* SobolG(spatial_dimension, prob_input_selection, parameters_selection);
\* the TypeError is raised where the message of the raise statement is
\* formatted
SobolG_init(dimension, prob_input_selection, parameters_selection) ==
    IF ~isinstance(dimension, "int")
    THEN [raised |-> Raise("TypeError", "SobolG.__init__"), obj |-> Unbound]
    ELSE LET prob_input_ == create_prob_input_from_available(
                               prob_input_selection,
                               SobolG_AVAILABLE_INPUT_SPECS, dimension.value)
             parameters == create_parameters_from_available(
                              parameters_selection,
                              AVAILABLE_PARAMETERS, dimension.value)
         IN IF prob_input_.raised # NoError
            THEN [raised |-> prob_input_.raised, obj |-> Unbound]
            ELSE IF parameters.raised # NoError
            THEN [raised |-> parameters.raised, obj |-> Unbound]
            ELSE [raised |-> NoError,
                  obj |-> UQTestFun_init("SobolG", prob_input_.obj,
                                         parameters.obj, "SobolG")]

\* np.abs(4 * xx - 2) + params
SobolG_evaluate(self, xx) ==
    IF self.parameters = <<>>
    THEN [raised |-> Raise("TypeError", "SobolG.evaluate"), ret |-> <<>>]
    ELSE LET b == np_broadcast(ncols(xx), Len(self.parameters[1]))
         IN IF b # NoError THEN [raised |-> b, ret |-> <<>>]
            ELSE [raised |-> NoError, ret |-> yy_of(xx)]

(* test_functions/dette.py *)

\* f"x_{i + 1}" for i in range(3)
DetteExp_marginals ==
    [i \in 1..3 |-> [name |-> <<"x_1", "x_2", "x_3">>[i],
                     distribution |-> STR_uniform,
                     parameters |-> <<0, 1000>>,
                     description |-> None]]

\* DetteExp(): the input is made of the one entry of _available_inputs
DetteExp_init ==
    LET created == MultivariateInput_init(create_marginals(DetteExp_marginals),
                                          None, None, None)
    IN IF created.raised # NoError
       THEN [raised |-> created.raised, obj |-> Unbound]
       ELSE [raised |-> NoError,
             obj |-> UQTestFun_init("DetteExp", created.obj, <<>>, "DetteExp")]

\* xx ** ([1.75, 1.5, 1.25])
evaluate_exp(xx) ==
    LET b == np_broadcast(ncols(xx), Len(DetteExp_marginals))
    IN IF b # NoError THEN [raised |-> b, ret |-> <<>>]
       ELSE [raised |-> NoError, ret |-> yy_of(xx)]

(* calling a test function *)

\* self.evaluate(xx)
evaluate(self, xx) ==
    CASE self.class = "WingWeight" -> WingWeight_evaluate(self, xx)
      [] self.class = "Borehole" -> borehole_evaluate(xx)
      [] self.class = "Flood" -> Flood_evaluate(self, xx)
      [] self.class = "SobolG" -> SobolG_evaluate(self, xx)
      [] self.class = "DetteExp" -> evaluate_exp(xx)

\* some value of column j lies outside [lower, upper] of marginal j
outside_bounds(self, xx) ==
    \E i \in 1..Len(xx) : \E j \in 1..Len(xx[i]) :
        \/ xx[i][j] < self.prob_input.marginals[j].lower * Scale
        \/ xx[i][j] > self.prob_input.marginals[j].upper * Scale

\* faulty variant: whatever value is given is stored
set_prob_input_unchecked(self, value) ==
    [raised |-> NoError,
     self |-> [self EXCEPT !.prob_input = value,
                           !.spatial_dimension =
                               IF isinstance(value, "MultivariateInput")
                               THEN spatial_dimension(value) ELSE @]]

\* self.prob_input = value of a test function of the classes that hold
\* prob_input; the dimension is that of the input held
set_prob_input(self, value) ==
    IF ~isinstance(value, "MultivariateInput")
    THEN [raised |-> Raise("TypeError", "prob_input"), self |-> self]
    ELSE [raised |-> NoError,
          self |-> [self EXCEPT !.prob_input = value,
                                !.spatial_dimension = spatial_dimension(value)]]

\* faulty variant: xx is handed to evaluate as it is
UQTestFun_call_unverified(self, xx) == evaluate(self, xx)

\* faulty variant: the width of xx is verified, its values are not
UQTestFun_call_any_value(self, xx) ==
    IF ncols(xx) # self.spatial_dimension
    THEN [raised |-> DimensionMismatch, ret |-> <<>>]
    ELSE evaluate(self, xx)

\* self(xx): the width and the values of xx are verified, then
\* self.evaluate(xx) is called
UQTestFun_call(self, xx) ==
    IF ncols(xx) # self.spatial_dimension
    THEN [raised |-> DimensionMismatch, ret |-> <<>>]
    ELSE IF outside_bounds(self, xx)
    THEN [raised |-> DomainError, ret |-> <<>>]
    ELSE evaluate(self, xx)

----------------------------------------------------------------------------
(* The callers of a test function: a program that constructs one of the   *)
(* built-in test functions and calls it on arrays.                        *)

TestFunClasses == {"WingWeight", "Borehole", "Flood", "SobolG", "DetteExp"}

\* the classes whose instances have the attribute prob_input (WingWeight
\* has the plain attribute input)
ProbInputClasses == {"Flood", "SobolG", "DetteExp"}

\* a selection that is no key of the available specifications
InvalidSelection == "qlej2"

\* a MultivariateInput of the marginals of WingWeight that is not DEFAULT_INPUT
WingWeight_custom_input ==
    MultivariateInput_init(create_marginals(WingWeight_DEFAULT_INPUT_DICTS),
                           "custom", None, None)

\* what the constructor of a class is called with; an argument that the
\* class does not take is None
TestFunArgs(class) ==
    CASE class = "WingWeight" ->
            { [input |-> i, spatial_dimension |-> None,
               prob_input_selection |-> None, parameters_selection |-> None] :
              i \in {WingWeight_DEFAULT_INPUT.obj, WingWeight_custom_input.obj,
                     create_prob_input_from_available(
                        "sobol", SobolG_AVAILABLE_INPUT_SPECS, 2).obj,
                     int(Len(WingWeight_DEFAULT_INPUT_DICTS))} }
      [] class = "Flood" ->
            { [input |-> None, spatial_dimension |-> None,
               prob_input_selection |-> p, parameters_selection |-> None] :
              p \in {None, "iooss", InvalidSelection} }
      [] class = "SobolG" ->
            { [input |-> None, spatial_dimension |-> d,
               prob_input_selection |-> p, parameters_selection |-> q] :
              d \in {int(i) : i \in 1..(MaxDimension + 1)}
                       \cup {[class |-> "str", value |-> "10"]},
              p \in {None, DEFAULT_INPUT_SELECTION, InvalidSelection},
              q \in {None, InvalidSelection}
                       \cup DOMAIN AVAILABLE_PARAMETERS[1] }
      [] OTHER ->
            { [input |-> None, spatial_dimension |-> None,
               prob_input_selection |-> None, parameters_selection |-> None] }

\* the arguments of class(): the defaults of the constructors
DefaultArgs(class) ==
    [input |-> IF class = "WingWeight" THEN WingWeight_DEFAULT_INPUT.obj
               ELSE None,
     spatial_dimension |-> IF class = "SobolG"
                           THEN int(DEFAULT_DIMENSION_SELECTION) ELSE None,
     prob_input_selection |-> CASE class = "SobolG" -> DEFAULT_INPUT_SELECTION
                                [] class = "Flood" -> "iooss"
                                [] OTHER -> None,
     parameters_selection |-> IF class = "SobolG"
                              THEN DEFAULT_PARAMETERS_SELECTION ELSE None]

\* class(...) with the arguments args
create(class, args) ==
    CASE class = "WingWeight" -> WingWeight_init(args.input)
      [] class = "Borehole" -> borehole_create
      [] class = "Flood" -> Flood_init(args.prob_input_selection)
      [] class = "SobolG" -> SobolG_init(args.spatial_dimension,
                                         args.prob_input_selection,
                                         args.parameters_selection)
      [] class = "DetteExp" -> DetteExp_init

\* the row of width m whose entry j is a bound of marginal j (kind[1]) moved
\* by kind[2], the marginals being taken round when m is above their number
row_of(self, m, kind) ==
    [j \in 1..m |->
        LET mj == self.prob_input.marginals[((j - 1) % self.spatial_dimension) + 1]
        IN (IF kind[1] = "lower" THEN mj.lower ELSE mj.upper) * Scale + kind[2]]

\* the arrays handed to a test function of dimension d
EvaluateArrays(self) ==
    LET d == self.spatial_dimension
    IN { [i \in 1..n |-> row_of(self, m, kind)] :
           n \in 1..MaxSampleSize,
           m \in {1, d - 1, d, d + 1, 2 * d} \ {0},
           kind \in {<<"lower", 0>>, <<"upper", 0>>,
                     <<"lower", -1>>, <<"upper", 1>>} }

\* what is assigned to the attribute prob_input of a test function
ProbInputValues ==
    {create_prob_input_from_available(
        "sobol", SobolG_AVAILABLE_INPUT_SPECS, d).obj : d \in 1..MaxDimension}
    \cup {int(10)}

\* testfun = class(...)
NewTestFun ==
    /\ testfun = Unbound
    /\ \E class \in TestFunClasses :
          \E args \in TestFunArgs(class) :
              LET res == create(class, args)
              IN /\ testfun' = res.obj
                 /\ last' = [NoCall EXCEPT !.op = "__init__", !.self = class,
                                           !.args = args,
                                           !.raised = res.raised]
    /\ UNCHANGED <<marginals, returned, prob_input>>

\* testfun.prob_input = value
SetProbInput ==
    /\ testfun # Unbound
    /\ testfun.class \in ProbInputClasses
    /\ \E value \in ProbInputValues :
          LET res == set_prob_input(testfun, value)
          IN /\ testfun' = res.self
             /\ last' = [NoCall EXCEPT !.op = "prob_input", !.self = testfun.class,
                                       !.other = value,
                                       !.raised = res.raised]
    /\ UNCHANGED <<marginals, returned, prob_input>>

\* testfun(xx) of a test function that holds an input
CallTestFun ==
    /\ testfun # Unbound
    /\ isinstance(testfun.prob_input, "MultivariateInput")
    /\ \E xx \in EvaluateArrays(testfun) :
          LET res == UQTestFun_call(testfun, xx)
          IN last' = [NoCall EXCEPT !.op = "__call__", !.self = testfun.class,
                                    !.xx = xx, !.xx_after = xx,
                                    !.raised = res.raised, !.ret = res.ret]
    /\ UNCHANGED <<marginals, returned, prob_input, testfun>>

NextFun == NewTestFun \/ SetProbInput \/ CallTestFun

SpecFun == Init /\ [][NextFun]_vars

----------------------------------------------------------------------------
(* What the tests and the built-in inputs expect of the families, stated   *)
(* apart from the code: tests/test_univariate_truncnormal.py               *)

\* s and t are the same word up to the case of their letters
SameWord(s, t) ==
    /\ Len(s) = Len(t)
    /\ \A k \in 1..Len(s) :
          \/ s[k] = t[k]
          \/ \E i \in 1..Len(UpperCase) :
                {s[k], t[k]} = {UpperCase[i], LowerCase[i]}

AllLowerCase(s) ==
    \A k \in 1..Len(s) : \A i \in 1..Len(UpperCase) : s[k] # UpperCase[i]

\* a uniform is given by its two bounds, the lower below the upper
ValidUniform(p) == Len(p) = 2 /\ p[1] < p[2]

\* a truncated normal is given by (mu, sigma, lb, ub)
TruncnormalMeanOutside(p) == Len(p) = 4 /\ (p[1] < p[3] \/ p[1] > p[4])

\* the variate at position k of the stream that starts from seed
RECURSIVE StreamAt(_, _)
StreamAt(seed, k) ==
    IF k = 0 THEN seed % RngMod ELSE rng_next(StreamAt(seed, k - 1))

\* the fields of an instance other than the generator
Identity(obj) ==
    <<obj.distribution, obj.parameters, obj.name, obj.description,
      obj.lower, obj.upper, obj.rng_seed>>

\* the sample sizes of the get_sample calls made on r, in order
Sizes(r) == [k \in 1..Len(returned[r]) |-> returned[r][k].sample_size]

ValidTruncnormal(p) ==
    /\ Len(p) = 4
    /\ p[2] > 0
    /\ p[3] < p[4]
    /\ ~TruncnormalMeanOutside(p)

\* every value of xx lies in [lower, upper] of the instance
InDomain(obj, xx) ==
    \A k \in 1..Len(xx) :
        obj.lower * Scale <= xx[k] /\ xx[k] <= obj.upper * Scale

\* every value of xx is a probability
InUnitInterval(xx) == \A k \in 1..Len(xx) : 0 <= xx[k] /\ xx[k] <= Scale

\* np.random.seed(seed); np.random.rand(m, n).T: the n-by-m array that the
\* global generator fills column by column
np_random_rand_T(seed, m, n) ==
    [i \in 1..n |-> [j \in 1..m |-> StreamAt(seed, (j - 1) * n + i)]]

\* -1 + 2 * uu, the variates of uu taken from [0, 1] to the default domain
to_default_domain(uu) ==
    [i \in 1..Len(uu) |-> [j \in 1..Len(uu[i]) |-> 2 * uu[i][j] - Scale]]

\* (x - min_value) / (max_value - min_value)
to_unit_interval(x, domain) ==
    (x - domain[1] * Scale) \div (domain[2] - domain[1])

\* the call made last is a construction from the recorded arguments
Constructed == last.op = "__init__" /\ last.args # NoArgs

NoInstance == \A r \in Refs : ~Bound(r)

----------------------------------------------------------------------------
(* Claims *)

\* C1: a construction whose distribution name, lower-cased, is not in the
\* supported set fails with UnsupportedDistribution (the ValueError of
\* verify_distribution) whatever the parameters are, and binds no instance.
C1_UnsupportedDistributionFails ==
    (/\ Constructed
     /\ \A d \in SUPPORTED_MARGINALS : ~SameWord(last.args.distribution, d))
        => (last.raised = UnsupportedDistribution /\ NoInstance)

C1_Witness ==
    /\ Constructed
    /\ SameWord(last.args.distribution, STR_truncnormal)
    /\ ValidTruncnormal(last.args.parameters)
    /\ last.raised = UnsupportedDistribution
    /\ NoInstance

\* C2: a construction whose parameter vector has the wrong arity for its
\* family or violates the family's constraints fails with InvalidParameters
\* (the ValueError of the family's verify_parameters), for the uniform and
\* for the truncated normal of the tests alike, and binds no instance.
C2_InvalidParametersFail ==
    (/\ Constructed
     /\ \/ /\ SameWord(last.args.distribution, STR_uniform)
           /\ ~ValidUniform(last.args.parameters)
        \/ /\ SameWord(last.args.distribution, STR_truncnormal)
           /\ ~ValidTruncnormal(last.args.parameters))
        => (last.raised = InvalidParameters /\ NoInstance)

\* C3: a truncated normal (mu, sigma, lb, ub) whose mean lies outside
\* [lb, ub] fails with InvalidParameters.
C3_TruncnormalMeanOutsideFails ==
    (/\ Constructed
     /\ SameWord(last.args.distribution, STR_truncnormal)
     /\ TruncnormalMeanOutside(last.args.parameters)
     /\ last.args.parameters[2] > 0
     /\ last.args.parameters[3] < last.args.parameters[4])
        => last.raised = InvalidParameters

\* C4: every instance that exists has a supported distribution and parameters
\* that pass the validation of its family; a construction that raised bound
\* nothing; no method call raises a validation error.
C4_InstancesAreValid ==
    /\ \A r \in Refs :
          Bound(r) => /\ marginals[r].distribution \in SUPPORTED_MARGINALS
                      /\ ValidUniform(marginals[r].parameters)
    /\ (last.op = "__init__" /\ last.raised # NoError) => ~Bound(last.self)
    /\ last.op \in {"pdf", "cdf", "icdf", "transform_sample", "get_sample"}
          => last.raised \notin {UnsupportedDistribution, InvalidParameters}

C4_Witness ==
    /\ last.op = "__init__"
    /\ last.raised = InvalidParameters
    /\ ~Bound(last.self)
    /\ \E r \in Refs : Bound(r) /\ marginals[r]._rng # <<>>

\* C5: a construction from any spelling of a supported family name (and
\* parameters that are valid for it) succeeds, and the distribution every
\* instance stores is the lower-case name.
C5_DistributionIsLowerCase ==
    /\ (/\ Constructed
        /\ SameWord(last.args.distribution, STR_uniform)
        /\ ValidUniform(last.args.parameters))
          => (last.raised = NoError /\ Bound(last.self))
    /\ \A r \in Refs :
          Bound(r) => /\ AllLowerCase(marginals[r].distribution)
                      /\ Constructed =>
                            SameWord(marginals[r].distribution,
                                     last.args.distribution)

C5_Witness ==
    /\ Constructed
    /\ last.args.distribution = <<"U","N","I","F","O","R","M">>
    /\ Bound(last.self)
    /\ marginals[last.self].distribution = STR_uniform

\* C6: every instance has lower <= upper, the bounds that construction
\* derived from the family and the parameters.
C6_LowerNotAboveUpper ==
    \A r \in Refs :
        Bound(r) => /\ marginals[r].lower <= marginals[r].upper
                    /\ marginals[r].lower = marginals[r].parameters[1]
                    /\ marginals[r].upper = marginals[r].parameters[2]

C6_Witness ==
    /\ Constructed
    /\ Bound(last.self)
    /\ marginals[last.self].lower = 0
    /\ marginals[last.self].upper = MaxValue

\* C7: no call of pdf, cdf, icdf, transform_sample or get_sample changes
\* distribution, parameters, name, description, lower, upper or rng_seed of
\* an instance, or the array it was handed; only get_sample on an instance
\* changes that instance's generator.
C7_Immutable ==
    [][\A r \in Refs :
          Bound(r) =>
            /\ Bound(r)'
            /\ Identity(marginals[r])' = Identity(marginals[r])
            /\ marginals[r]._rng' # marginals[r]._rng
                  => (last'.op = "get_sample" /\ last'.self = r)
            /\ last'.op \in {"pdf", "cdf", "icdf", "transform_sample"}
                  => last'.xx_after = last'.xx]_vars

C7_Witness ==
    /\ last.op = "transform_sample"
    /\ last.other \in Refs
    /\ Drawn(last.self) = MaxDraws
    /\ Len(returned[last.self]) = 2
    /\ marginals[last.self].rng_seed = <<1>>

\* C8: an instance has no generator until its first get_sample call; that
\* call creates it, seeded from rng_seed; every later get_sample call on the
\* instance draws from that generator, so that the variates of a call are
\* those that follow the variates of the calls before it in one stream.
C8_GeneratorCreatedOnce ==
    [][\A r \in Refs :
          /\ (~Bound(r) /\ Bound(r)') => marginals[r]._rng' = <<>>
          /\ (Bound(r) /\ ~(last'.op = "get_sample" /\ last'.self = r))
                => marginals[r]._rng' = marginals[r]._rng
          /\ (Bound(r) /\ last'.op = "get_sample" /\ last'.self = r)
                => LET n == last'.sample_size
                       before == Drawn(r)
                       rng == marginals[r]._rng'
                   IN /\ rng # <<>>
                      /\ rng[1].pos = before + n
                      /\ Len(last'.xx) = n
                      /\ rng[1].state = last'.xx[n]
                      /\ marginals[r]._rng # <<>> =>
                            /\ last'.xx[1] = rng_next(marginals[r]._rng[1].state)
                            /\ \A k \in 2..n :
                                  last'.xx[k] = rng_next(last'.xx[k - 1])
                      /\ marginals[r].rng_seed # <<>> =>
                            \A k \in 1..n :
                               last'.xx[k] =
                                 StreamAt(marginals[r].rng_seed[1], before + k)]_vars

C8_Witness ==
    /\ last.op = "get_sample"
    /\ Len(returned[last.self]) = 2
    /\ marginals[last.self].rng_seed = <<1>>
    /\ marginals[last.self]._rng[1].pos = MaxDraws
    /\ last.xx = <<StreamAt(1, MaxDraws)>>

\* C9: two instances constructed with the same distribution, parameters and
\* seed return the same values for the same sequence of get_sample calls.
C9_SameSeedSameValues ==
    \A r \in Refs, o \in Refs :
        (/\ r # o /\ Bound(r) /\ Bound(o)
         /\ marginals[r].distribution = marginals[o].distribution
         /\ marginals[r].parameters = marginals[o].parameters
         /\ marginals[r].rng_seed # <<>>
         /\ marginals[r].rng_seed = marginals[o].rng_seed
         /\ Sizes(r) = Sizes(o))
            => \A k \in 1..Len(returned[r]) :
                  /\ returned[r][k].raised = NoError
                  /\ returned[o][k].raised = NoError
                  /\ Len(returned[r][k].ret) = returned[r][k].sample_size
                  /\ returned[r][k].ret = returned[o][k].ret

\* C10: two instances with equal distribution, parameters, name and
\* description compare equal, whether or not either has been sampled from,
\* and an instance compares equal to itself before and after get_sample.
C10_EqualityIgnoresGenerator ==
    (/\ last.op = "__eq__"
     /\ marginals[last.self].distribution = marginals[last.other].distribution
     /\ marginals[last.self].parameters = marginals[last.other].parameters
     /\ marginals[last.self].name = marginals[last.other].name
     /\ marginals[last.self].description = marginals[last.other].description)
        => (last.raised = NoError /\ last.ret = <<TRUE>>)

\* C11: transform_sample(xx, other) with an other that is no UnivDist raises
\* the TypeError of transform_sample itself (TypeMismatch) for every xx and
\* returns nothing; the error is that of the isinstance check, not one that
\* the evaluation of cdf or icdf raised, so the check comes first.
C11_OtherMustBeUnivDist ==
    (last.op = "transform_sample" /\ last.other \notin Refs)
        => /\ last.raised = Raise("TypeError", "transform_sample")
           /\ last.ret = <<>>
           /\ last.raised.site \notin {"get_cdf_values", "get_icdf_values"}

C11_Witness ==
    /\ last.op = "transform_sample"
    /\ last.other = "list"
    /\ last.xx = <<Scale \div 2, Scale>>
    /\ last.raised = Raise("TypeError", "transform_sample")

\* C12: for instances A and B and every xx in the domain of A,
\* A.transform_sample(xx, B) returns, element by element, the values that
\* B.icdf returns on the values that A.cdf returns on xx.
C12_TransformIsIcdfOfCdf ==
    (/\ last.op = "transform_sample"
     /\ last.other \in Refs
     /\ InDomain(marginals[last.self], last.xx))
        => LET pp == UnivDist_cdf(marginals[last.self], last.xx)
               yy == UnivDist_icdf(marginals[last.other], pp.ret)
           IN /\ pp.raised = NoError
              /\ yy.raised = NoError
              /\ last.raised = NoError
              /\ Len(last.ret) = Len(last.xx)
              /\ \A k \in 1..Len(last.xx) : last.ret[k] = yy.ret[k]

\* C13: cdf and icdf of an instance are inverses of each other: cdf of
\* values in [lower, upper] returns probabilities that icdf maps back to
\* those values, and icdf of probabilities in [0, 1] returns values that
\* cdf maps back to those probabilities.
C13_CdfIcdfInverses ==
    /\ (last.op = "cdf" /\ InDomain(marginals[last.self], last.xx))
          => /\ last.raised = NoError
             /\ UnivDist_icdf(marginals[last.self], last.ret)
                   = [raised |-> NoError, ret |-> last.xx]
    /\ (last.op = "icdf" /\ InUnitInterval(last.xx))
          => /\ last.raised = NoError
             /\ UnivDist_cdf(marginals[last.self], last.ret)
                   = [raised |-> NoError, ret |-> last.xx]

\* C14: an instance of the uniform with parameters [0, 1] has the bounds
\* (0, 1), and its pdf, cdf and icdf return values, not errors: at 0.5 the
\* density is 1.0, the probability 0.5 and the quantile 0.5.
C14_UnitUniformScenario ==
    \A r \in Refs :
        (/\ Bound(r)
         /\ marginals[r].distribution = STR_uniform
         /\ marginals[r].parameters = <<0, 1>>)
            => /\ marginals[r].lower = 0
               /\ marginals[r].upper = 1
               /\ (last.op \in {"pdf", "cdf", "icdf"} /\ last.self = r)
                     => /\ last.raised = NoError
                        /\ Len(last.ret) = Len(last.xx)
                        /\ \A k \in 1..Len(last.xx) :
                              last.xx[k] = Scale \div 2
                                 => last.ret[k] = IF last.op = "pdf"
                                                  THEN Scale
                                                  ELSE Scale \div 2

\* C15: MultivariateInput.get_sample(n) returns an array of n rows and
\* spatial_dimension columns; column j holds the values that marginal j maps
\* its own draws to, and every value of column j lies in [lower_j, upper_j].
C15_JointSampleShapeAndRange ==
    last.op = "MultivariateInput.get_sample"
        => /\ last.raised = NoError
           /\ Len(last.ret) = last.sample_size
           /\ \A i \in 1..Len(last.ret) :
                 /\ Len(last.ret[i]) = spatial_dimension(prob_input)
                 /\ \A j \in 1..Len(last.ret[i]) :
                       LET m == prob_input.marginals[j]
                       IN /\ m.lower * Scale <= last.ret[i][j]
                          /\ last.ret[i][j] <= m.upper * Scale
                          /\ last.ret[i][j] =
                                uniform_icdf(<<last.xx[j][i]>>, m.parameters)[1]

\* C16: MultivariateInput.transform_sample of an array of the right width
\* whose values lie in the canonical domain [min_value, max_value] returns
\* the array whose column j is marginal j's icdf of
\* (x - min_value) / (max_value - min_value).
C16_JointTransformIsColumnwiseIcdf ==
    (/\ last.op = "MultivariateInput.transform_sample"
     /\ ncols(last.xx) = spatial_dimension(prob_input)
     /\ ~outside_domain(last.xx, last.domain))
        => /\ last.raised = NoError
           /\ Len(last.ret) = Len(last.xx)
           /\ \A i \in 1..Len(last.xx) :
                 /\ Len(last.ret[i]) = Len(last.xx[i])
                 /\ \A j \in 1..Len(last.xx[i]) :
                       last.ret[i][j] =
                          uniform_icdf(
                             <<to_unit_interval(last.xx[i][j], last.domain)>>,
                             prob_input.marginals[j].parameters)[1]

\* C17: with the global generator seeded, get_sample(n) returns what
\* transform_sample returns on the n-by-M array of uniform variates that
\* the global generator gives from the same seed, filled column by column,
\* in the domain [0, 1] and, shifted to it, in the default domain [-1, 1].
C17_JointSampleFollowsGlobalSeed ==
    last.op = "MultivariateInput.get_sample"
        => LET uu == np_random_rand_T(last.seed[1],
                                      spatial_dimension(prob_input),
                                      last.sample_size)
               xx_1 == MultivariateInput_transform_sample(
                          prob_input, uu, <<0, 1>>)
               xx_d == MultivariateInput_transform_sample(
                          prob_input, to_default_domain(uu), DefaultDomain)
           IN /\ last.raised = NoError
              /\ xx_1.raised = NoError
              /\ xx_d.raised = NoError
              /\ last.ret = xx_1.ret
              /\ last.ret = xx_d.ret

\* C18: MultivariateInput.transform_sample of an array whose number of
\* columns is not spatial_dimension raises DimensionMismatch and returns
\* nothing.
C18_WrongWidthFails ==
    (/\ last.op = "MultivariateInput.transform_sample"
     /\ ncols(last.xx) # spatial_dimension(prob_input))
        => (last.raised = DimensionMismatch /\ last.ret = <<>>)

C18_Witness ==
    /\ last.op = "MultivariateInput.transform_sample"
    /\ spatial_dimension(prob_input) = 2
    /\ ncols(last.xx) = 3
    /\ ~outside_domain(last.xx, last.domain)
    /\ last.raised = DimensionMismatch

\* C19: MultivariateInput.transform_sample of an array with a value outside
\* the canonical domain [min_value, max_value] raises a ValueError and
\* returns nothing; when the width of the array is right, the error is
\* DomainError.
C19_OutsideDomainFails ==
    (/\ last.op = "MultivariateInput.transform_sample"
     /\ outside_domain(last.xx, last.domain))
        => /\ last.raised.type = "ValueError"
           /\ last.ret = <<>>
           /\ ncols(last.xx) = spatial_dimension(prob_input)
                 => last.raised = DomainError

C19_Witness ==
    /\ last.op = "MultivariateInput.transform_sample"
    /\ last.domain = DefaultDomain
    /\ spatial_dimension(prob_input) = 2
    /\ last.xx = <<(<<0, 0>>), (<<0, 2 * Scale>>)>>
    /\ last.raised = DomainError

\* C20: calling a test function on an array whose number of columns is not
\* the function's spatial_dimension raises a ValueError and returns nothing,
\* whichever built-in test function it is.
C20_WrongWidthCallFails ==
    (/\ last.op = "__call__"
     /\ ncols(last.xx) # testfun.spatial_dimension)
        => (last.raised.type = "ValueError" /\ last.ret = <<>>)

C20_Witness ==
    /\ last.op = "__call__"
    /\ testfun.class = "WingWeight"
    /\ testfun.spatial_dimension = Len(WingWeight_DEFAULT_INPUT_DICTS)
    /\ ncols(last.xx) = 2 * testfun.spatial_dimension
    /\ ~outside_bounds(testfun, [i \in 1..Len(last.xx) |->
                                  SubSeq(last.xx[i], 1, testfun.spatial_dimension)])
    /\ last.raised.type = "ValueError"

C22_DefaultInstanceCreated ==
    (last.op = "__init__" /\ last.args = DefaultArgs(last.self))
        => (last.raised = NoError /\ testfun # Unbound)

\* C23: create_prob_input_from_available, as SobolG calls it, returns None
\* for the selection None, the MultivariateInput of the selected
\* specification (its callable marginals called with the spatial dimension)
\* for a selection that is a key, and raises ValueError for every other one.
C23_InputFromAvailable ==
    (/\ last.op = "__init__"
     /\ last.self = "SobolG"
     /\ isinstance(last.args.spatial_dimension, "int"))
        => LET p == last.args.prob_input_selection
               d == last.args.spatial_dimension.value
               specs == SobolG_AVAILABLE_INPUT_SPECS
           IN /\ p \notin ({None} \cup DOMAIN specs)
                    => /\ last.raised.type = "ValueError"
                       /\ last.raised.site = "create_prob_input_from_available"
                       /\ testfun = Unbound
              /\ p \in ({None} \cup DOMAIN specs)
                    => last.raised.site # "create_prob_input_from_available"
              /\ (p = None /\ last.raised = NoError)
                    => testfun.prob_input = NoneObject
              /\ (p \in DOMAIN specs /\ last.raised = NoError)
                    => /\ isinstance(testfun.prob_input, "MultivariateInput")
                       /\ spatial_dimension(testfun.prob_input) = d
                       /\ testfun.prob_input
                             = MultivariateInput_init(
                                  specs[p].marginals[d], specs[p].name,
                                  specs[p].description, specs[p].copulas).obj

C23_Witness ==
    /\ last.op = "__init__"
    /\ last.self = "SobolG"
    /\ last.args.spatial_dimension = int(MaxDimension + 1)
    /\ last.args.prob_input_selection = "sobol"
    /\ last.raised = NoError
    /\ spatial_dimension(testfun.prob_input) = MaxDimension + 1

\* C24: the attribute prob_input of a test function is None after a
\* construction with prob_input_selection None, is the assigned object after
\* a MultivariateInput was assigned to it, and assigning a value that is no
\* MultivariateInput raises TypeError and stores nothing.
C24_ProbInputSlot ==
    /\ (/\ last.op = "__init__"
        /\ last.self \in {"Flood", "SobolG"}
        /\ last.args.prob_input_selection = None
        /\ last.raised = NoError)
           => testfun.prob_input = NoneObject
    /\ (last.op = "prob_input" /\ isinstance(last.other, "MultivariateInput"))
           => (last.raised = NoError /\ testfun.prob_input = last.other)
    /\ (last.op = "prob_input" /\ ~isinstance(last.other, "MultivariateInput"))
           => (last.raised.type = "TypeError" /\ testfun.prob_input # last.other)

C24_Witness ==
    /\ last.op = "prob_input"
    /\ last.self = "SobolG"
    /\ last.other = int(10)
    /\ last.raised.type = "TypeError"
    /\ testfun.prob_input = NoneObject

\* C25: UnivDist.from_spec(spec, seed) succeeds exactly when the direct
\* construction from the fields of the record and the seed succeeds, raises
\* the same error when it does not, and gives the same instance
\* (distribution, parameters, name, description, lower, upper, rng_seed).
C25_FromSpecIsConstruction ==
    last.op = "from_spec"
        => LET direct == post_init(last.args.distribution, last.args.parameters,
                                   last.args.name, last.args.description,
                                   last.args.rng_seed)
           IN /\ last.raised = direct.raised
              /\ marginals["a"] = direct.obj
              /\ Bound("a") => /\ AllLowerCase(marginals["a"].distribution)
                               /\ ValidUniform(marginals["a"].parameters)
                               /\ marginals["a"].rng_seed = last.args.rng_seed

C25_Witness ==
    /\ last.op = "from_spec"
    /\ last.args.distribution = <<"U","N","I","F","O","R","M">>
    /\ last.args.rng_seed = <<1>>
    /\ Bound("a")
    /\ marginals["a"].distribution = STR_uniform
    /\ marginals["a"].rng_seed = <<1>>

\* C26: SobolG with a spatial_dimension that is no int raises TypeError, and
\* does so before an input or a parameter set is created: whatever the
\* selections are, the error is the TypeError of SobolG.__init__ and no
\* instance exists.
C26_DimensionMustBeInt ==
    (/\ last.op = "__init__"
     /\ last.self = "SobolG"
     /\ ~isinstance(last.args.spatial_dimension, "int"))
        => /\ last.raised = Raise("TypeError", "SobolG.__init__")
           /\ testfun = Unbound

C26_Witness ==
    /\ last.op = "__init__"
    /\ last.self = "SobolG"
    /\ last.args.spatial_dimension = [class |-> "str", value |-> "10"]
    /\ last.args.prob_input_selection = InvalidSelection
    /\ last.raised.type = "TypeError"

\* C27: the construction of a UnivDist lower-cases the name, checks that the
\* family is supported, validates the parameters and only then computes the
\* bounds.  Seen from the caller: a name that is supported once lower-cased
\* passes the check of the family; an unsupported name fails there, whatever
\* the parameters are, and never in the dispatch to the family
\* (UnboundLocal); parameters that are not valid fail in the validation and
\* never in the computation of the bounds (IndexOutOfBounds); an instance has
\* bounds of validated parameters.
C27_ConstructionOrder ==
    last.op = "__init__"
        => LET d == str_lower(last.args.distribution)
               p == last.args.parameters
           IN /\ d \notin SUPPORTED_MARGINALS
                    => last.raised = UnsupportedDistribution
              /\ (d \in SUPPORTED_MARGINALS /\ ~ValidUniform(p))
                    => last.raised = InvalidParameters
              /\ (d \in SUPPORTED_MARGINALS /\ ValidUniform(p))
                    => (last.raised = NoError /\ Bound(last.self))
              /\ last.raised \notin {UnboundLocal, IndexOutOfBounds}
              /\ Bound(last.self)
                    => /\ ValidUniform(marginals[last.self].parameters)
                       /\ marginals[last.self].lower = p[1]
                       /\ marginals[last.self].upper = p[2]

C27_Witness ==
    /\ last.op = "__init__"
    /\ last.args.distribution = <<"U","N","I","F","O","R","M">>
    /\ Len(last.args.parameters) = 1
    /\ last.raised = InvalidParameters
    /\ ~Bound(last.self)

\* C29: splitting a draw does not change the values: of two instances with
\* the same distribution, parameters and seed, the one asked get_sample(n)
\* and then get_sample(m) has returned, put together, the n + m values that
\* the other has returned for one get_sample(n + m).
C29_SplitDrawSameValues ==
    \A r \in Refs : \A o \in Refs :
        (/\ Bound(r) /\ Bound(o)
         /\ marginals[r].rng_seed # <<>>
         /\ marginals[r].rng_seed = marginals[o].rng_seed
         /\ marginals[r].distribution = marginals[o].distribution
         /\ marginals[r].parameters = marginals[o].parameters
         /\ Len(returned[r]) = 2
         /\ Len(returned[o]) = 1
         /\ returned[o][1].sample_size
               = returned[r][1].sample_size + returned[r][2].sample_size)
            => /\ returned[r][1].raised = NoError
               /\ returned[r][2].raised = NoError
               /\ returned[o][1].raised = NoError
               /\ Len(returned[o][1].ret) = returned[o][1].sample_size
               /\ returned[r][1].ret \o returned[r][2].ret = returned[o][1].ret

\* C28: WingWeight(input) raises TypeError when input is no
\* MultivariateInput and ValueError when its spatial dimension is not that
\* of the default input; otherwise the instance holds input, the
\* probabilistic input that was passed in.
C28_WingWeightKeepsInput ==
    (last.op = "__init__" /\ last.self = "WingWeight")
        => IF ~isinstance(last.args.input, "MultivariateInput")
           THEN last.raised.type = "TypeError" /\ testfun = Unbound
           ELSE IF spatial_dimension(last.args.input)
                      # Len(WingWeight_DEFAULT_INPUT_DICTS)
           THEN last.raised.type = "ValueError" /\ testfun = Unbound
           ELSE /\ last.raised = NoError
                /\ testfun.prob_input = last.args.input

\* C30: SobolG(M) with the input "sobol" and an available parameter
\* selection is created for every M >= 1; its input has exactly M marginals,
\* uniform on [0, 1] and named X1..XM in order, and its parameter array has
\* exactly M entries (sobol-3: 1..M; sobol-4: 1, 4, .., M^2; kucherenko-2a:
\* 0 for the first two entries and 6.52 for the rest; crestaux-2007:
\* (i - 1) / 2), so the dimension of the input and the length of the
\* parameters agree.
C30_SobolDimensionsAgree ==
    (/\ last.op = "__init__"
     /\ last.self = "SobolG"
     /\ isinstance(last.args.spatial_dimension, "int")
     /\ last.args.prob_input_selection = "sobol"
     /\ last.args.parameters_selection \in DOMAIN AVAILABLE_PARAMETERS[1])
        => LET M == last.args.spatial_dimension.value
               q == last.args.parameters_selection
               ms == testfun.prob_input.marginals
               params == testfun.parameters[1]
           IN /\ last.raised = NoError
              /\ testfun # Unbound
              /\ Len(ms) = M
              /\ \A i \in 1..M : /\ ms[i].name = XNames[i]
                                 /\ ms[i].distribution = STR_uniform
                                 /\ ms[i].parameters = <<0, 1000>>
              /\ testfun.parameters # <<>>
              /\ Len(params) = M
              /\ Len(params) = spatial_dimension(testfun.prob_input)
              /\ testfun.spatial_dimension = M
              /\ q = "sobol-3" => \A i \in 1..M : params[i] = 1000 * i
              /\ q = "sobol-4" => \A i \in 1..M : params[i] = 1000 * i * i
              /\ q = "kucherenko-2a"
                    => \A i \in 1..M : params[i] = IF i <= 2 THEN 0 ELSE 6520
              /\ q = "crestaux-2007" => \A i \in 1..M : params[i] = 500 * (i - 1)

C30_Witness ==
    /\ last.op = "__init__"
    /\ last.self = "SobolG"
    /\ last.args.spatial_dimension = int(MaxDimension + 1)
    /\ last.args.prob_input_selection = "sobol"
    /\ last.args.parameters_selection = "kucherenko-2a"
    /\ last.raised = NoError
    /\ Len(testfun.prob_input.marginals) = MaxDimension + 1
    /\ Len(testfun.parameters[1]) = MaxDimension + 1
    /\ testfun.parameters[1][MaxDimension + 1] = 6520

====
